---- MODULE Spec2Model ----
(***************************************************************************)
(* Model of vista3d/scripts/validation/val_multigpu_sam2_point_iterative.py *)
(*                                                                         *)
(* Spec      : run() as executed by world_size worker processes, with the  *)
(*             collectives (barrier, all_gather) and the metric tensor;    *)
(*             one refinement iteration of one object is one step whose    *)
(*             Dice value is an input.                                     *)
(* FairSpec  : Spec with weak fairness of Next.                            *)
(* SpecIter  : run() as executed by a single process, with the refinement  *)
(*             iteration of lines 289-392 taken statement group by         *)
(*             statement group (prompting, propagation, Dice).             *)
(* SpecFalsePred, SpecSeed, SpecBest : the pure functions                  *)
(*             get_points_from_false_pred, get_points_from_label and the   *)
(*             best-over-iterations expression applied to bounded inputs.  *)
(***************************************************************************)
EXTENDS Integers, Sequences, FiniteSets, TLC

\* ------------------------------------------------------------------ bounds
\* largest torch.cuda.device_count() / world size explored
MaxWorld == 2
\* largest len(process_files) explored
MaxFiles == 2
\* values of len(label_set) - 1 explored
MetricDims == {1, 2}
\* values of the max_iter configuration entry explored
MaxIterChoices == {1, 2}
\* rows and columns of a frame, frames of a volume
FrameH == 2
FrameW == 4
NumFrames == 2
\* side of the square structuring element of binary_erosion; the source's
\* np.ones((20, 20)) of lines 81 and 95 is scaled down with the frames
StructSize == 2

VARIABLES
    device_count,       \* torch.cuda.device_count()
    world_size,         \* line 114 / 117
    n_files,            \* len(process_files) before partitioning
    metric_dim,         \* line 252
    max_iters,          \* line 251
    pc,                 \* per rank: position of the process in run()
    process_files,      \* per rank: its shard (sequence of file ids), line 224
    obj_num,            \* per rank: line 255 / 261
    output_tensor,      \* per rank: gathered shard sizes, line 258-260
    metric,             \* per rank: the tensor bound to `metric`
    _index,             \* per rank: line 269 / 272
    i,                  \* per rank: object loop variable, line 285
    idx,                \* per rank: iteration loop variable, line 289
    entered,            \* per rank: the collectives it has entered, in order
    local_metric,       \* per rank: value of `metric` at line 394 (history)
    pre_filter,         \* value of `metric` at line 408 on the reporter (history)
    keep_index,         \* line 408
    point_num,          \* the local `point_num` of run(): no statement before line 410 assigns it
    \* locals of the process whose refinement loop SpecIter follows
    tie,                \* how torch.sort orders equal keys on this build
    label,              \* line 288: the object's ground truth, a set of voxels
    _point,             \* the prompt points, each [x, y] = <<column, row>>
    _label,             \* the prompt labels, 1 foreground / 0 background
    _point_additional,  \* line 318
    ann_frame_idx,      \* line 296 / 320
    pred,               \* line 307 / 331, later line 362
    video_segments,     \* line 349: frame -> mask
    forward_segments,   \* what the loop of lines 350-354 stored (history)
    out_frame_idx,      \* the frame the running propagate_in_video yields next
    lowerest_dice_index,\* line 374
    read_dice_index,    \* the value line 314 read (history)
    assigned_at,        \* <<_index, i, idx>> at the last run of line 374 (history)
    \* arguments and results of the functions applied on their own
    fn_pc, fn_tensor, fn_best, fn_mask, fn_seed, fn_pred, fn_gt, fn_in, fn_out

mainvars == <<device_count, world_size, n_files, metric_dim, max_iters, pc,
              process_files, obj_num, output_tensor, metric, _index, i, idx,
              entered, local_metric, pre_filter, keep_index, point_num>>

itervars == <<tie, label, _point, _label, _point_additional, ann_frame_idx, pred,
              video_segments, forward_segments, out_frame_idx,
              lowerest_dice_index, read_dice_index, assigned_at>>

fnvars == <<fn_pc, fn_tensor, fn_best, fn_mask, fn_seed, fn_pred, fn_gt, fn_in, fn_out>>

vars == <<mainvars, itervars, fnvars>>

\* ------------------------------------------------------------- Dice values
\* A Dice score is the fraction 2|A n B| / (|A| + |B|), kept as <<num, den>>.
\* torch.nan (line 266) is the pair with denominator 0.
NaN == <<0, 0>>

isnan(x) == x[2] = 0

\* whole-volume Dice values an iteration may produce: compute_dice on a
\* non-empty ground truth is a number in [0, 1], never NaN
DiceValues == {<<0, 1>>, <<1, 1>>}

\* Python's "unbound local" state of a name
Unbound == "unbound"

\* the same for the integer local lowerest_dice_index, which no statement
\* before the loop of lines 366-375 assigns
UnboundIndex == -1

Ranks == 0 .. (world_size - 1)

distributed == device_count > 1

\* ----------------------------------------------------------------- tensors
\* torch.zeros(n, metric_dim, max_iters) + torch.nan
NanRow == [o \in 1 .. metric_dim |-> [t \in 1 .. max_iters |-> NaN]]

NanTensor(n) == [r \in 1 .. n |-> NanRow]

\* max(output_tensor), a Python max over the list of gathered sizes
MaxOf(seq) == CHOOSE m \in {seq[k] : k \in DOMAIN seq} :
                 \A k \in DOMAIN seq : seq[k] <= m

RECURSIVE vstack(_)
\* torch.vstack of a list of tensors: rows of the first, then of the rest
vstack(tensors) ==
    IF tensors = <<>> THEN <<>>
    ELSE Head(tensors) \o vstack(Tail(tensors))

\* monai partition_dataset(data, num_partitions, shuffle=False,
\* even_divisible=False)[rank]  ==  data[rank::num_partitions]
Shard(n, parts, rank) ==
    LET cnt == IF n > rank THEN (n - rank + parts - 1) \div parts ELSE 0
    IN  [k \in 1 .. cnt |-> rank + (k - 1) * parts + 1]

\* ------------------------------------------------------------- collectives
\* A collective is entered by appending to the rank's log; it completes for a
\* rank once every rank has entered its collective of the same position.
Enter(w, kind, data) ==
    entered' = [entered EXCEPT ![w] = Append(@, [kind |-> kind, data |-> data])]

Ready(w) == \A v \in Ranks : Len(entered[v]) >= Len(entered[w])

\* the list an all_gather fills: rank v's contribution at position v
Gathered(w) ==
    [k \in 1 .. world_size |-> entered[k - 1][Len(entered[w])].data]

\* ------------------------------------------------------------------ report
\* line 408: ~torch.isnan(metric).all(1).all(1)
\* isnan(metric) is [V, O, I]; .all(1) reduces the objects, giving [V, I];
\* the second .all(1) reduces the iterations, giving [V].
KeepIndex(m) ==
    LET nanmask == [r \in DOMAIN m |->
                      [o \in 1 .. metric_dim |->
                         [t \in 1 .. max_iters |-> isnan(m[r][o][t])]]]
        all_obj == [r \in DOMAIN m |->
                      [t \in 1 .. max_iters |->
                         \A o \in 1 .. metric_dim : nanmask[r][o][t]]]
        all_it  == [r \in DOMAIN m |->
                      \A t \in 1 .. max_iters : all_obj[r][t]]
    IN  [r \in DOMAIN m |-> ~all_it[r]]

RECURSIVE MaskIndex(_, _)
\* line 409: metric[keep_index], boolean-mask indexing along the first axis
MaskIndex(m, keep) ==
    IF m = <<>> THEN <<>>
    ELSE IF keep[1]
         THEN <<m[1]>> \o MaskIndex(Tail(m), Tail(keep))
         ELSE MaskIndex(Tail(m), Tail(keep))

\* ---------------------------------------------------------------- geometry
\* a frame is FrameH x FrameW pixels <<row, column>>; a volume is NumFrames
\* frames, its voxels <<row, column, frame>>; a mask is the set of its true
\* pixels or voxels
Pixels == {<<r, c>> : r \in 0 .. (FrameH - 1), c \in 0 .. (FrameW - 1)}

Voxels == {<<p[1], p[2], d>> : p \in Pixels, d \in 0 .. (NumFrames - 1)}

\* label[..., d] and label[:, :, d]
Slice(lab, d) == {<<v[1], v[2]>> : v \in {u \in lab : u[3] = d}}

Abs(x) == IF x < 0 THEN 0 - x ELSE x

\* the sequence f with its elements evaluated once, not at every use
Tensor(f) == SubSeq(f, 1, Len(f))

RECURSIVE SeqSum(_)
SeqSum(q) == IF q = <<>> THEN 0 ELSE Head(q) + SeqSum(Tail(q))

\* ((a - b) ** 2).sum(-1)
SqDist(a, b) ==
    SeqSum(Tensor([k \in DOMAIN a |-> (a[k] - b[k]) * (a[k] - b[k])]))

\* the order torch.nonzero lists coordinates in (row-major)
LexLess(p, q) ==
    \E k \in DOMAIN p : p[k] < q[k] /\ \A j \in 1 .. (k - 1) : p[j] = q[j]

LexMin(S) == CHOOSE p \in S : \A q \in S : q = p \/ LexLess(p, q)

LexMax(S) == CHOOSE p \in S : \A q \in S : q = p \/ LexLess(q, p)

\* which of several equal candidates a library call returns: fixed for a build
\* (the first or the last in row-major order), unknown to the script
Ties == {"low", "high"}

Pick(S, tb) == IF tb = "low" THEN LexMin(S) ELSE LexMax(S)

\* a farthest candidate: sorted_indices[-1] in place of sorted_indices[0]
SortedLast(cands, key, tb) ==
    LET pdis == {<<key[p], p>> : p \in cands}
        most == CHOOSE m \in {kp[1] : kp \in pdis} :
                   \A kp \in pdis : kp[1] <= m
    IN  Pick({kp[2] : kp \in {x \in pdis : x[1] = most}}, tb)

\* _, sorted_indices = torch.sort(pdis); plabelpoints[sorted_indices[0]]
\* (lines 73-74, 87-88, 101-102): a candidate of least key
SortedFirst(cands, key, tb) ==
    LET pdis  == {<<key[p], p>> : p \in cands}
        least == CHOOSE m \in {kp[1] : kp \in pdis} :
                    \A kp \in pdis : m <= kp[1]
    IN  Pick({kp[2] : kp \in {x \in pdis : x[1] = least}}, tb)

\* monai get_largest_connected_component_mask, connectivity=None: neighbours
\* differ by at most one in every coordinate
Adjacent(p, q) == p # q /\ \A k \in DOMAIN p : Abs(p[k] - q[k]) <= 1

RECURSIVE Grow(_, _)
Grow(mask, comp) ==
    LET nxt == comp \cup {q \in mask : \E p \in comp : Adjacent(p, q)}
    IN  IF nxt = comp THEN comp ELSE Grow(mask, nxt)

RECURSIVE Components(_)
\* the components in the order a row-major scan meets them
Components(mask) ==
    IF mask = {} THEN {}
    ELSE LET c == Grow(mask, {LexMin(mask)})
         IN  {c} \cup Components(mask \ c)

get_largest_connected_component_mask(mask, tb) ==
    IF mask = {} THEN {}
    ELSE LET comps == Components(mask)
             big   == {c \in comps :
                         \A e \in comps : Cardinality(e) <= Cardinality(c)}
             first == Pick({LexMin(c) : c \in big}, tb)
         IN  CHOOSE c \in big : first \in c

RECURSIVE SumCoord(_, _)
SumCoord(S, k) ==
    IF S = {} THEN 0
    ELSE LET p == CHOOSE x \in S : TRUE
         IN  p[k] + SumCoord(S \ {p}, k)

\* sorted_indices[0] of an empty tensor raises IndexError (line 74)
IndexError == <<>>

\* lines 62-75.  The distance to the mean is compared after scaling by the
\* number n of points: n*p - sum(points) in place of p - mean(points).
get_points_from_label(labels, tb) ==
    LET plabels == get_largest_connected_component_mask(labels, tb)
        n       == Cardinality(plabels)
        any     == CHOOSE x \in plabels : TRUE
        total   == Tensor([k \in DOMAIN any |-> SumCoord(plabels, k)])
        pdis    == [p \in plabels |->
                      SqDist([k \in DOMAIN p |-> n * p[k]], total)]
    IN  IF plabels = {} THEN IndexError
        ELSE SortedFirst(plabels, pdis, tb)

\* offsets of a StructSize x StructSize structuring element about its origin,
\* index StructSize // 2 (scipy's default)
StructOffsets ==
    (0 - (StructSize \div 2)) .. (StructSize - 1 - (StructSize \div 2))

\* scipy.ndimage.binary_erosion(mask, structure=np.ones((k, k))), border 0
binary_erosion(mask) ==
    {p \in Pixels :
       \A dr \in StructOffsets : \A dc \in StructOffsets :
          <<p[1] + dr, p[2] + dc>> \in mask}

\* a slip in lines 86 and 100: the last prompt as the reference
ReferenceLast(points) == <<points[Len(points)][2], points[Len(points)][1]>>

\* lines 86 and 100: torch.tensor([_point[0][1], _point[0][0]]), <<row, column>>
Reference(points) == <<points[1][2], points[1][1]>>

\* a slip in line 104: the label of the false-negative point not appended
false_pred_label_dropped(prd, gt, pts, lbs, tb) ==
    LET fp   == binary_erosion(prd \ gt)
        np1  == SortedFirst(fp, [q \in fp |-> SqDist(q, Reference(pts))], tb)
        pts1 == IF fp # {} THEN Append(pts, <<np1[2], np1[1]>>) ELSE pts
        lbs1 == IF fp # {} THEN Append(lbs, 0) ELSE lbs
        fng  == binary_erosion(gt \ prd)
        np2  == SortedFirst(fng, [q \in fng |-> SqDist(q, Reference(pts1))], tb)
        pts2 == IF fng # {} THEN Append(pts1, <<np2[2], np2[1]>>) ELSE pts1
    IN  <<pts2, lbs1>>

\* lines 77-106: returns <<_point, _label>>
get_points_from_false_pred(prd, gt, pts, lbs, tb) ==
    LET fp   == binary_erosion(prd \ gt)
        np1  == SortedFirst(fp, [q \in fp |-> SqDist(q, Reference(pts))], tb)
        pts1 == IF fp # {} THEN Append(pts, <<np1[2], np1[1]>>) ELSE pts
        lbs1 == IF fp # {} THEN Append(lbs, 0) ELSE lbs
        fng  == binary_erosion(gt \ prd)
        np2  == SortedFirst(fng, [q \in fng |-> SqDist(q, Reference(pts1))], tb)
        pts2 == IF fng # {} THEN Append(pts1, <<np2[2], np2[1]>>) ELSE pts1
        lbs2 == IF fng # {} THEN Append(lbs1, 1) ELSE lbs1
    IN  <<pts2, lbs2>>

\* ---------------------------------------------------------- best iteration
\* a <= b for fractions with positive denominators
FracLeq(a, b) == a[1] * b[2] <= b[1] * a[2]

MaxFrac(S) == CHOOSE x \in S : \A y \in S : FracLeq(y, x)

\* torch.nan_to_num(x, 0)
nan_to_num(x) == IF isnan(x) THEN <<0, 1>> ELSE x

\* lines 411-414
MetricBest(m) ==
    IF max_iters > 1
    THEN [v \in DOMAIN m |->
            [o \in 1 .. metric_dim |->
               MaxFrac({nan_to_num(m[v][o][t]) : t \in 1 .. max_iters})]]
    ELSE [v \in DOMAIN m |-> [o \in 1 .. metric_dim |-> m[v][o][1]]]

\* ----------------------------------------------------------------- actions
\* lines 110-117
Start(w) ==
    /\ pc[w] = "start"
    /\ IF distributed
       THEN /\ Enter(w, "barrier", <<>>)
            /\ pc' = [pc EXCEPT ![w] = "barrier115"]
       ELSE /\ pc' = [pc EXCEPT ![w] = "partition"]
            /\ UNCHANGED entered
    /\ UNCHANGED <<itervars, fnvars>>
    /\ UNCHANGED <<device_count, world_size, n_files, metric_dim, max_iters,
                   process_files, obj_num, output_tensor, metric, _index, i, idx,
                   local_metric, pre_filter, keep_index, point_num>>

\* line 115: dist.barrier() returns
PassBarrier115(w) ==
    /\ pc[w] = "barrier115"
    /\ Ready(w)
    /\ pc' = [pc EXCEPT ![w] = "partition"]
    /\ UNCHANGED <<itervars, fnvars>>
    /\ UNCHANGED <<device_count, world_size, n_files, metric_dim, max_iters,
                   process_files, obj_num, output_tensor, metric, _index, i, idx,
                   entered, local_metric, pre_filter, keep_index, point_num>>

\* lines 213-259: the shard, the loader, obj_num = len(val_loader), and in a
\* distributed run the barrier of line 259
Partition(w) ==
    /\ pc[w] = "partition"
    /\ LET files == IF distributed THEN Shard(n_files, world_size, w)
                    ELSE [k \in 1 .. n_files |-> k]
       IN  /\ process_files' = [process_files EXCEPT ![w] = files]
           /\ obj_num' = [obj_num EXCEPT ![w] = Len(files)]
    /\ IF distributed
       THEN /\ Enter(w, "barrier", <<>>)
            /\ pc' = [pc EXCEPT ![w] = "barrier259"]
       ELSE /\ pc' = [pc EXCEPT ![w] = "alloc"]
            /\ UNCHANGED entered
    /\ UNCHANGED <<itervars, fnvars>>
    /\ UNCHANGED <<device_count, world_size, n_files, metric_dim, max_iters,
                   output_tensor, metric, _index, i, idx,
                   local_metric, pre_filter, keep_index, point_num>>

\* lines 259-260: the barrier returns and all_gather(output_tensor, size_tensor)
\* is entered
PassBarrier259(w) ==
    /\ pc[w] = "barrier259"
    /\ Ready(w)
    /\ Enter(w, "all_gather", obj_num[w])
    /\ pc' = [pc EXCEPT ![w] = "gather_sizes"]
    /\ UNCHANGED <<itervars, fnvars>>
    /\ UNCHANGED <<device_count, world_size, n_files, metric_dim, max_iters,
                   process_files, obj_num, output_tensor, metric, _index, i, idx,
                   local_metric, pre_filter, keep_index, point_num>>

\* the row count line 261 leaves in obj_num
GatheredObjNum(sizes) == MaxOf(sizes)

\* lines 260-261: all_gather returns; obj_num = max(output_tensor)
GatherSizes(w) ==
    /\ pc[w] = "gather_sizes"
    /\ Ready(w)
    /\ output_tensor' = [output_tensor EXCEPT ![w] = Gathered(w)]
    /\ obj_num' = [obj_num EXCEPT ![w] = GatheredObjNum(Gathered(w))]
    /\ pc' = [pc EXCEPT ![w] = "alloc"]
    /\ UNCHANGED <<itervars, fnvars>>
    /\ UNCHANGED <<device_count, world_size, n_files, metric_dim, max_iters,
                   process_files, metric, _index, i, idx,
                   entered, local_metric, pre_filter, keep_index, point_num>>

\* lines 262-269
Alloc(w) ==
    /\ pc[w] = "alloc"
    /\ metric' = [metric EXCEPT ![w] = NanTensor(obj_num[w])]
    /\ _index' = [_index EXCEPT ![w] = 0]
    /\ pc' = [pc EXCEPT ![w] = "loop"]
    /\ UNCHANGED <<itervars, fnvars>>
    /\ UNCHANGED <<device_count, world_size, n_files, metric_dim, max_iters,
                   process_files, obj_num, output_tensor, i, idx,
                   entered, local_metric, pre_filter, keep_index, point_num>>

\* lines 270-288: the next volume of the loader, its first object
NextVolume(w) ==
    /\ pc[w] = "loop"
    /\ _index[w] < Len(process_files[w])
    /\ _index' = [_index EXCEPT ![w] = @ + 1]
    /\ i' = [i EXCEPT ![w] = 1]
    /\ idx' = [idx EXCEPT ![w] = 0]
    /\ pc' = [pc EXCEPT ![w] = "iter"]
    /\ UNCHANGED <<itervars, fnvars>>
    /\ UNCHANGED <<device_count, world_size, n_files, metric_dim, max_iters,
                   process_files, obj_num, output_tensor, metric,
                   entered, local_metric, pre_filter, keep_index, point_num>>

\* line 386: metric[_index - 1, i - 1, idx] = pt_volume_dice
WriteMetric(m, vol, obj, it, dice) ==
    [m EXCEPT ![vol][obj][it + 1] = dice]

\* the loop headers of lines 289, 285 and 270 after one iteration body
Advance(w) ==
    IF idx[w] + 1 < max_iters
    THEN /\ idx' = [idx EXCEPT ![w] = @ + 1]
         /\ UNCHANGED i
         /\ pc' = [pc EXCEPT ![w] = "iter"]
    ELSE IF i[w] < metric_dim
         THEN /\ i' = [i EXCEPT ![w] = @ + 1]
              /\ idx' = [idx EXCEPT ![w] = 0]
              /\ pc' = [pc EXCEPT ![w] = "iter"]
         ELSE /\ UNCHANGED <<i, idx>>
              /\ pc' = [pc EXCEPT ![w] = "loop"]

\* lines 289-392: one refinement iteration of one object; the predictor's
\* output, and so the volume Dice, is an input
Iteration(w) ==
    /\ pc[w] = "iter"
    /\ \E dice \in DiceValues :
          metric' = [metric EXCEPT
                       ![w] = WriteMetric(@, _index[w], i[w], idx[w], dice)]
    /\ Advance(w)
    /\ UNCHANGED <<itervars, fnvars>>
    /\ UNCHANGED <<device_count, world_size, n_files, metric_dim, max_iters,
                   process_files, obj_num, output_tensor, _index,
                   entered, local_metric, pre_filter, keep_index, point_num>>

\* lines 394-399: the loader is exhausted; in a distributed run the barrier of
\* line 399 is entered
EndLoop(w) ==
    /\ pc[w] = "loop"
    /\ _index[w] = Len(process_files[w])
    /\ local_metric' = [local_metric EXCEPT ![w] = metric[w]]
    /\ IF distributed
       THEN /\ Enter(w, "barrier", <<>>)
            /\ pc' = [pc EXCEPT ![w] = "barrier399"]
       ELSE /\ pc' = [pc EXCEPT ![w] = "report"]
            /\ UNCHANGED entered
    /\ UNCHANGED <<itervars, fnvars>>
    /\ UNCHANGED <<device_count, world_size, n_files, metric_dim, max_iters,
                   process_files, obj_num, output_tensor, metric, _index, i, idx,
                   pre_filter, keep_index, point_num>>

\* lines 399-403: the barrier returns and all_gather(global_combined_tensor,
\* metric) is entered
PassBarrier399(w) ==
    /\ pc[w] = "barrier399"
    /\ Ready(w)
    /\ Enter(w, "all_gather", metric[w])
    /\ pc' = [pc EXCEPT ![w] = "gather_metric"]
    /\ UNCHANGED <<itervars, fnvars>>
    /\ UNCHANGED <<device_count, world_size, n_files, metric_dim, max_iters,
                   process_files, obj_num, output_tensor, metric, _index, i, idx,
                   local_metric, pre_filter, keep_index, point_num>>

\* a slip in line 404: the gathered list stacked last rank first
CombineReversed(gathered) ==
    vstack([k \in 1 .. Len(gathered) |-> gathered[Len(gathered) + 1 - k]])

\* line 404: metric = torch.vstack(global_combined_tensor)
Combine(gathered) == vstack(gathered)

\* lines 400-404: all_gather needs every rank's tensor to have the shape of the
\* zeros_like(metric) buffers; with equal shapes it returns and the list is
\* stacked, otherwise the collective fails
GatherMetric(w) ==
    /\ pc[w] = "gather_metric"
    /\ Ready(w)
    /\ IF \A k \in 1 .. world_size : Len(Gathered(w)[k]) = Len(metric[w])
       THEN /\ metric' = [metric EXCEPT ![w] = Combine(Gathered(w))]
            /\ pc' = [pc EXCEPT ![w] = "report"]
       ELSE /\ pc' = [pc EXCEPT ![w] = "shape_error"]
            /\ UNCHANGED metric
    /\ UNCHANGED <<itervars, fnvars>>
    /\ UNCHANGED <<device_count, world_size, n_files, metric_dim, max_iters,
                   process_files, obj_num, output_tensor, _index, i, idx,
                   entered, local_metric, pre_filter, keep_index, point_num>>

\* line 406: torch.cuda.device_count() == 1 or dist.get_rank() == 0
IsReporter(w) == device_count = 1 \/ w = 0

\* a slip in line 408: the negation left out
KeepIndexNotNegated(m) == [r \in DOMAIN m |-> ~KeepIndex(m)[r]]

\* line 408
ComputeKeepIndex(m) == KeepIndex(m)

\* lines 406-409 on the reporting process
FilterRows(w) ==
    /\ pc[w] = "report"
    /\ IsReporter(w)
    /\ pre_filter' = metric[w]
    /\ keep_index' = ComputeKeepIndex(metric[w])
    /\ metric' = [metric EXCEPT ![w] = MaskIndex(@, ComputeKeepIndex(metric[w]))]
    /\ pc' = [pc EXCEPT ![w] = "line410"]
    /\ UNCHANGED <<itervars, fnvars>>
    /\ UNCHANGED <<device_count, world_size, n_files, metric_dim, max_iters,
                   process_files, obj_num, output_tensor, _index, i, idx,
                   entered, local_metric, point_num>>

\* line 406 on every other rank: the block is skipped
SkipReport(w) ==
    /\ pc[w] = "report"
    /\ ~IsReporter(w)
    /\ pc' = [pc EXCEPT ![w] = "cleanup"]
    /\ UNCHANGED <<itervars, fnvars>>
    /\ UNCHANGED <<device_count, world_size, n_files, metric_dim, max_iters,
                   process_files, obj_num, output_tensor, metric, _index, i, idx,
                   entered, local_metric, pre_filter, keep_index, point_num>>

\* line 410: point_num = point_num[keep_index].  point_num is a local of run()
\* that no earlier statement assigns, so reading it raises UnboundLocalError
\* and run() is left through the exception: lines 411-433 are not executed.
IndexPointNum(w) ==
    /\ pc[w] = "line410"
    /\ point_num = Unbound
    /\ pc' = [pc EXCEPT ![w] = "UnboundLocalError"]
    /\ UNCHANGED <<itervars, fnvars>>
    /\ UNCHANGED <<device_count, world_size, n_files, metric_dim, max_iters,
                   process_files, obj_num, output_tensor, metric, _index, i, idx,
                   entered, local_metric, pre_filter, keep_index, point_num>>

\* lines 430-432
Cleanup(w) ==
    /\ pc[w] = "cleanup"
    /\ IF distributed
       THEN /\ Enter(w, "barrier", <<>>)
            /\ pc' = [pc EXCEPT ![w] = "barrier432"]
       ELSE /\ pc' = [pc EXCEPT ![w] = "returned"]
            /\ UNCHANGED entered
    /\ UNCHANGED <<itervars, fnvars>>
    /\ UNCHANGED <<device_count, world_size, n_files, metric_dim, max_iters,
                   process_files, obj_num, output_tensor, metric, _index, i, idx,
                   local_metric, pre_filter, keep_index, point_num>>

\* lines 432-435: the barrier returns, dist.destroy_process_group(), return.
\* Not a disjunct of Next: rank 0 leaves run() at line 410 and never enters
\* this barrier, so Ready never holds here (BarrierOf432NeverReturns).
PassBarrier432(w) ==
    /\ pc[w] = "barrier432"
    /\ Ready(w)
    /\ pc' = [pc EXCEPT ![w] = "returned"]
    /\ UNCHANGED <<itervars, fnvars>>
    /\ UNCHANGED <<device_count, world_size, n_files, metric_dim, max_iters,
                   process_files, obj_num, output_tensor, metric, _index, i, idx,
                   entered, local_metric, pre_filter, keep_index, point_num>>

\* ------------------------------------------------------------------- specs
InitRun(dc, ws) ==
    /\ device_count = dc
    /\ world_size = ws
    /\ n_files \in 0 .. MaxFiles
    /\ metric_dim \in MetricDims
    /\ max_iters \in MaxIterChoices
    /\ pc = [w \in 0 .. (ws - 1) |-> "start"]
    /\ process_files = [w \in 0 .. (ws - 1) |-> <<>>]
    /\ obj_num = [w \in 0 .. (ws - 1) |-> 0]
    /\ output_tensor = [w \in 0 .. (ws - 1) |-> <<>>]
    /\ metric = [w \in 0 .. (ws - 1) |-> <<>>]
    /\ _index = [w \in 0 .. (ws - 1) |-> 0]
    /\ i = [w \in 0 .. (ws - 1) |-> 0]
    /\ idx = [w \in 0 .. (ws - 1) |-> 0]
    /\ entered = [w \in 0 .. (ws - 1) |-> <<>>]
    /\ local_metric = [w \in 0 .. (ws - 1) |-> <<>>]
    /\ pre_filter = <<>>
    /\ keep_index = <<>>
    /\ point_num = Unbound
    /\ label = {}
    /\ _point = <<>>
    /\ _label = <<>>
    /\ _point_additional = <<>>
    /\ ann_frame_idx = 0
    /\ pred = {}
    /\ video_segments = <<>>
    /\ forward_segments = <<>>
    /\ out_frame_idx = 0
    /\ lowerest_dice_index = UnboundIndex
    /\ read_dice_index = UnboundIndex
    /\ assigned_at = <<>>

\* one process per GPU (torchrun --nproc_per_node = number of GPUs), or fewer
FnIdle ==
    /\ fn_pc = "idle"
    /\ fn_tensor = <<>>
    /\ fn_best = <<>>
    /\ fn_mask = {}
    /\ fn_seed = <<>>
    /\ fn_pred = {}
    /\ fn_gt = {}
    /\ fn_in = <<>>
    /\ fn_out = <<>>

Init ==
    /\ \E dc \in 1 .. MaxWorld :
          \E ws \in 1 .. dc :
             /\ (dc = 1 => ws = 1)
             /\ InitRun(dc, ws)
    /\ tie = "low"
    /\ FnIdle

Next ==
    \/ \E w \in Ranks : Start(w)
    \/ \E w \in Ranks : PassBarrier115(w)
    \/ \E w \in Ranks : Partition(w)
    \/ \E w \in Ranks : PassBarrier259(w)
    \/ \E w \in Ranks : GatherSizes(w)
    \/ \E w \in Ranks : Alloc(w)
    \/ \E w \in Ranks : NextVolume(w)
    \/ \E w \in Ranks : Iteration(w)
    \/ \E w \in Ranks : EndLoop(w)
    \/ \E w \in Ranks : PassBarrier399(w)
    \/ \E w \in Ranks : GatherMetric(w)
    \/ \E w \in Ranks : FilterRows(w)
    \/ \E w \in Ranks : SkipReport(w)
    \/ \E w \in Ranks : IndexPointNum(w)
    \/ \E w \in Ranks : Cleanup(w)

Spec == Init /\ [][Next]_vars

\* a process that can take a step is eventually scheduled: the run does not
\* stop while some process is runnable
FairSpec == Spec /\ WF_vars(Next)

\* ------------------------------------------- one refinement iteration in detail
Frames == 0 .. (NumFrames - 1)

\* the StructSize leftmost and the StructSize rightmost columns of a frame
LeftBlock == {p \in Pixels : p[2] < StructSize}

RightBlock == {p \in Pixels : p[2] >= FrameW - StructSize}

\* the volume whose frame d is the mask f[d]
Stack(f) == UNION {{<<p[1], p[2], d>> : p \in f[d]} : d \in DOMAIN f}

\* ground truths of an object (line 288): a structure that moves between
\* frames, one that does not, one absent from frame 0, and an object absent
\* from the volume
IterLabels ==
    {Stack([d \in Frames |-> IF d = 0 THEN LeftBlock ELSE RightBlock]),
     Stack([d \in Frames |-> LeftBlock]),
     Stack([d \in Frames |-> IF d = 0 THEN {} ELSE RightBlock]),
     {}}

\* masks the predictor may return for a frame (out_mask_logits > 0.0); the
\* predictor is an opaque collaborator, any of them may come at any call
PredMasks == {{}, LeftBlock}

RECURSIVE Gcd(_, _)
Gcd(a, b) == IF b = 0 THEN a ELSE Gcd(b, a % b)

\* the fraction n / d in lowest terms, d > 0
Frac(n, d) == <<n \div Gcd(n, d), d \div Gcd(n, d)>>

\* monai compute_dice(y_pred, y, include_background=False) of one channel,
\* ignore_empty=True: NaN for an empty ground truth
compute_dice(y_pred, y) ==
    IF y = {} THEN NaN
    ELSE Frac(2 * Cardinality(y_pred \cap y), Cardinality(y_pred) + Cardinality(y))

\* a slip in line 373: <= in place of <
FracNotGreater(a, b) == a[1] * b[2] <= b[1] * a[2]

\* a < b for fractions with positive denominators
FracLess(a, b) == a[1] * b[2] < b[1] * a[2]

RECURSIVE DiceLoop(_, _, _, _, _)
\* lines 366-375 from frame d on: the value of lowerest_dice_index after the loop
DiceLoop(prd, lab, d, lowest, index) ==
    IF d = NumFrames THEN index
    ELSE IF Slice(lab, d) # {}
              /\ FracLess(compute_dice(Slice(prd, d), Slice(lab, d)), lowest)
         THEN DiceLoop(prd, lab, d + 1,
                       compute_dice(Slice(prd, d), Slice(lab, d)), d)
         ELSE DiceLoop(prd, lab, d + 1, lowest, index)

\* lines 365-375, lowerest_dice = 1000 at the start
PerFrameDice(prd, lab, index) == DiceLoop(prd, lab, 0, <<1000, 1>>, index)

\* lines 366-375: line 374 runs for some frame, which it does as soon as a
\* frame with ground truth has a Dice below the 1000 of line 365
Assigns(prd, lab) ==
    \E d \in Frames :
       /\ Slice(lab, d) # {}
       /\ FracLess(compute_dice(Slice(prd, d), Slice(lab, d)), <<1000, 1>>)

\* lines 351 and 356: video_segments[out_frame_idx] = {...}
Store(segments, frame, mask) == (frame :> mask) @@ segments

\* lines 288-349 for idx == 0, lines 311-349 for idx >= 1: the seed (and for
\* idx >= 1 the additional point), the predictor's mask of the annotation
\* frame, the correction, and the reset before propagation
Prompt(w) ==
    /\ pc[w] = "iter"
    /\ \E lab \in (IF idx[w] = 0 THEN IterLabels ELSE {label}) :
       \E point \in {get_points_from_label(lab, tie)} :
       \E mask \in PredMasks :
          LET slice_point ==
                  IF idx[w] = 0 THEN point
                  ELSE get_points_from_label(Slice(lab, lowerest_dice_index), tie)
              additional == <<<<point[2], point[1]>>>>
              gt == Slice(lab, point[3])
              res == IF idx[w] = 0
                     THEN get_points_from_false_pred(mask, gt, additional, <<1>>, tie)
                     ELSE get_points_from_false_pred(mask, gt, _point \o additional,
                                                     _label \o <<1>>, tie)
          IN  /\ label' = lab
              /\ IF idx[w] > 0 /\ lowerest_dice_index = UnboundIndex
                 THEN /\ pc' = [pc EXCEPT ![w] = "UnboundLocalError"]
                      /\ UNCHANGED <<_point, _label, _point_additional, ann_frame_idx,
                                     pred, video_segments, forward_segments,
                                     out_frame_idx, read_dice_index>>
                 ELSE IF point = IndexError \/ slice_point = IndexError
                 THEN /\ pc' = [pc EXCEPT ![w] = "IndexError"]
                      /\ UNCHANGED <<_point, _label, _point_additional, ann_frame_idx,
                                     pred, video_segments, forward_segments,
                                     out_frame_idx, read_dice_index>>
                 ELSE /\ _point' = res[1]
                      /\ _label' = res[2]
                      /\ _point_additional' =
                            IF idx[w] = 0 THEN _point_additional ELSE additional
                      /\ read_dice_index' =
                            IF idx[w] = 0 THEN read_dice_index ELSE lowerest_dice_index
                      /\ ann_frame_idx' = point[3]
                      /\ pred' = mask
                      /\ video_segments' = <<>>
                      /\ forward_segments' = <<>>
                      /\ out_frame_idx' = point[3]
                      /\ pc' = [pc EXCEPT ![w] = "forward"]
    /\ UNCHANGED <<tie, lowerest_dice_index, assigned_at, fnvars>>
    /\ UNCHANGED <<device_count, world_size, n_files, metric_dim, max_iters,
                   process_files, obj_num, output_tensor, metric, _index, i, idx,
                   entered, local_metric, pre_filter, keep_index, point_num>>

\* lines 350-354: propagate_in_video(reverse=False) yields the frames from the
\* annotation frame to the last one, each with a mask
PropagateForward(w) ==
    /\ pc[w] = "forward"
    /\ \E mask \in PredMasks :
          /\ video_segments' = Store(video_segments, out_frame_idx, mask)
          /\ forward_segments' = Store(forward_segments, out_frame_idx, mask)
    /\ IF out_frame_idx = NumFrames - 1
       THEN /\ out_frame_idx' = ann_frame_idx
            /\ pc' = [pc EXCEPT ![w] = "reverse"]
       ELSE /\ out_frame_idx' = out_frame_idx + 1
            /\ UNCHANGED pc
    /\ UNCHANGED <<tie, label, _point, _label, _point_additional, ann_frame_idx,
                   pred, lowerest_dice_index, read_dice_index, assigned_at,
                   fnvars>>
    /\ UNCHANGED <<device_count, world_size, n_files, metric_dim, max_iters,
                   process_files, obj_num, output_tensor, metric, _index, i, idx,
                   entered, local_metric, pre_filter, keep_index, point_num>>

\* lines 355-359: propagate_in_video(reverse=True) yields the frames from the
\* annotation frame down to frame 0, each with a mask
PropagateReverse(w) ==
    /\ pc[w] = "reverse"
    /\ \E mask \in PredMasks :
          video_segments' = Store(video_segments, out_frame_idx, mask)
    /\ IF out_frame_idx = 0
       THEN /\ pc' = [pc EXCEPT ![w] = "dice"]
            /\ UNCHANGED out_frame_idx
       ELSE /\ out_frame_idx' = out_frame_idx - 1
            /\ UNCHANGED pc
    /\ UNCHANGED <<tie, label, _point, _label, _point_additional, ann_frame_idx,
                   pred, forward_segments, lowerest_dice_index, read_dice_index,
                   assigned_at, fnvars>>
    /\ UNCHANGED <<device_count, world_size, n_files, metric_dim, max_iters,
                   process_files, obj_num, output_tensor, metric, _index, i, idx,
                   entered, local_metric, pre_filter, keep_index, point_num>>

\* lines 361-392: the stacked prediction, the per-frame Dice loop, the volume
\* Dice written to the metric tensor, and the loop headers
ComputeDice(w) ==
    /\ pc[w] = "dice"
    /\ lowerest_dice_index' =
          PerFrameDice(Stack(video_segments), label, lowerest_dice_index)
    /\ assigned_at' = IF Assigns(Stack(video_segments), label)
                      THEN <<_index[w], i[w], idx[w]>>
                      ELSE assigned_at
    /\ metric' = [metric EXCEPT
                    ![w] = WriteMetric(@, _index[w], i[w], idx[w],
                                       compute_dice(Stack(video_segments), label))]
    /\ pred' = Stack(video_segments)
    /\ Advance(w)
    /\ UNCHANGED <<tie, label, _point, _label, _point_additional, ann_frame_idx,
                   video_segments, forward_segments, out_frame_idx,
                   read_dice_index, fnvars>>
    /\ UNCHANGED <<device_count, world_size, n_files, metric_dim, max_iters,
                   process_files, obj_num, output_tensor, _index,
                   entered, local_metric, pre_filter, keep_index, point_num>>

\* the iteration loop is followed on one process and at most one volume
IterFiles == {0, 1}

InitIter ==
    /\ InitRun(1, 1)
    /\ n_files \in IterFiles
    /\ tie \in Ties
    /\ FnIdle

NextIter ==
    \/ \E w \in Ranks : Start(w)
    \/ \E w \in Ranks : Partition(w)
    \/ \E w \in Ranks : Alloc(w)
    \/ \E w \in Ranks : NextVolume(w)
    \/ \E w \in Ranks : Prompt(w)
    \/ \E w \in Ranks : PropagateForward(w)
    \/ \E w \in Ranks : PropagateReverse(w)
    \/ \E w \in Ranks : ComputeDice(w)
    \/ \E w \in Ranks : EndLoop(w)
    \/ \E w \in Ranks : FilterRows(w)
    \/ \E w \in Ranks : IndexPointNum(w)

SpecIter == InitIter /\ [][NextIter]_vars

\* ------------------------------------------------- the functions on their own
MainIdle ==
    /\ InitRun(1, 1)
    /\ n_files = 0
    /\ tie \in Ties

\* the rectangles of a frame, the empty one among them
Rects ==
    {{p \in Pixels : r1 <= p[1] /\ p[1] <= r2 /\ c1 <= p[2] /\ p[2] <= c2} :
       <<r1, r2, c1, c2>> \in (0 .. (FrameH - 1)) \X (0 .. (FrameH - 1))
                              \X (0 .. (FrameW - 1)) \X (0 .. (FrameW - 1))}

\* prompt points <<column, row>> given to get_points_from_false_pred
FnPoints == {<<0, 0>>, <<FrameW - 1, FrameH - 1>>}

\* prompt lists of one or two points
FnPointLists ==
    {<<a>> : a \in FnPoints} \cup {<<a, b>> : <<a, b>> \in FnPoints \X FnPoints}

InitFalsePred ==
    /\ MainIdle
    /\ metric_dim = 1
    /\ max_iters = 1
    /\ fn_pc = "false_pred"
    /\ fn_pred \in Rects
    /\ fn_gt \in Rects
    /\ fn_in \in {<<pts, [k \in DOMAIN pts |-> 1]>> : pts \in FnPointLists}
    /\ fn_out = <<>>
    /\ fn_tensor = <<>>
    /\ fn_best = <<>>
    /\ fn_mask = {}
    /\ fn_seed = <<>>

\* _point, _label = get_points_from_false_pred(pred, gt, _point, _label)
CallFalsePred ==
    /\ fn_pc = "false_pred"
    /\ fn_out' = get_points_from_false_pred(fn_pred, fn_gt, fn_in[1], fn_in[2], tie)
    /\ fn_pc' = "false_pred_done"
    /\ UNCHANGED <<mainvars, itervars, fn_tensor, fn_best, fn_mask, fn_seed,
                   fn_pred, fn_gt, fn_in>>

SpecFalsePred == InitFalsePred /\ [][CallFalsePred]_vars

\* the boxes with a corner at voxel lo, and those with a corner at voxel hi
BoxTo(lo, hi) ==
    {v \in Voxels : \A k \in 1 .. 3 : lo[k] <= v[k] /\ v[k] <= hi[k]}

\* masks given to get_points_from_label: the union of a box at the first voxel
\* and a box at the last voxel (connected or not, convex or not), and the
\* empty mask
SeedMasks ==
    {BoxTo(<<0, 0, 0>>, a) \cup BoxTo(b, <<FrameH - 1, FrameW - 1, NumFrames - 1>>) :
       <<a, b>> \in Voxels \X Voxels} \cup {{}}

InitSeed ==
    /\ MainIdle
    /\ metric_dim = 1
    /\ max_iters = 1
    /\ fn_pc = "seed"
    /\ fn_mask \in SeedMasks
    /\ fn_seed = <<>>
    /\ fn_pred = {}
    /\ fn_gt = {}
    /\ fn_in = <<>>
    /\ fn_out = <<>>
    /\ fn_tensor = <<>>
    /\ fn_best = <<>>

\* point = get_points_from_label(label)
CallSeed ==
    /\ fn_pc = "seed"
    /\ fn_seed' = get_points_from_label(fn_mask, tie)
    /\ fn_pc' = "seed_done"
    /\ UNCHANGED <<mainvars, itervars, fn_tensor, fn_best, fn_mask,
                   fn_pred, fn_gt, fn_in, fn_out>>

SpecSeed == InitSeed /\ [][CallSeed]_vars

\* entries of the tensors given to the best-over-iterations expression
BestValues == DiceValues \cup {<<1, 2>>, NaN}

InitBest ==
    /\ MainIdle
    /\ fn_pc = "best"
    /\ fn_tensor \in [1 .. 1 -> [1 .. metric_dim -> [1 .. max_iters -> BestValues]]]
    /\ fn_best = <<>>
    /\ fn_mask = {}
    /\ fn_seed = <<>>
    /\ fn_pred = {}
    /\ fn_gt = {}
    /\ fn_in = <<>>
    /\ fn_out = <<>>

\* lines 411-414
CallBest ==
    /\ fn_pc = "best"
    /\ fn_best' = MetricBest(fn_tensor)
    /\ fn_pc' = "best_done"
    /\ UNCHANGED <<mainvars, itervars, fn_tensor, fn_mask, fn_seed,
                   fn_pred, fn_gt, fn_in, fn_out>>

SpecBest == InitBest /\ [][CallBest]_vars

\* ------------------------------------------------------------------ claims
\* the barrier of line 432 never returns for any rank (why PassBarrier432 is
\* not a disjunct of Next)
BarrierOf432NeverReturns ==
    \A w \in Ranks : ~(pc[w] = "barrier432" /\ Ready(w))

\* the iteration body has merged the two propagation passes (lines 350-359)
Merged(w) == pc[w] = "dice"

\* C1: for every frame yielded by both passes the mask kept in video_segments
\* after the merge is the one the forward pass produced.
C1_ForwardKept ==
    \A w \in Ranks :
       Merged(w) =>
         \A f \in DOMAIN forward_segments :
            video_segments[f] = forward_segments[f]

\* the prompts of iteration idx >= 1 have been built (lines 311-335)
Reseeded(w) == pc[w] = "forward" /\ idx[w] >= 1

\* C2: the extra positive point of an iteration idx >= 1 is a pixel of the
\* ground truth of the frame that had the lowest per-frame Dice in iteration
\* idx - 1.
C2_ExtraPointFromWorstFrame ==
    \A w \in Ranks :
       Reseeded(w) =>
         <<_point_additional[1][2], _point_additional[1][1], read_dice_index>>
            \in label

\* C3: on a run in which every volume is processed without error, the
\* reporting process (the single process, or rank 0) does not fail between the
\* end of the per-volume loop and torch.save.
C3_ReporterReachesSave ==
    \A w \in Ranks : IsReporter(w) => pc[w] # "UnboundLocalError"

\* s is a prefix of t
IsPrefix(s, t) == Len(s) <= Len(t) /\ SubSeq(t, 1, Len(s)) = s

\* the step is the prompt construction of iteration 0 of an object
SeedStep == \E w \in Ranks : pc[w] = "iter" /\ idx[w] = 0 /\ pc'[w] = "forward"

\* C4: within the iterations of one object no point or label is removed or
\* reordered: the lists before a step are prefixes of the lists after it, the
\* lists of iteration 0 start with the seed and its label 1, and the two lists
\* always have the same length.
C4_PointsOnlyAppended ==
    /\ [](Len(_point) = Len(_label))
    /\ [][IF SeedStep
          THEN LET seed == get_points_from_label(label', tie)
               IN  /\ IsPrefix(<<<<seed[2], seed[1]>>>>, _point')
                   /\ IsPrefix(<<1>>, _label')
          ELSE /\ IsPrefix(_point, _point')
               /\ IsPrefix(_label, _label')]_vars

\* C4 witness: an iteration idx >= 1 has appended the extra point and a
\* correction to a list that already held the seed and a correction, one of
\* the corrections being a negative point
C4_Witness ==
    \E w \in Ranks :
       /\ Reseeded(w)
       /\ Len(_point) >= 4
       /\ Len(_point) = Len(_label)
       /\ \E k \in DOMAIN _label : _label[k] = 0

\* the process is about to read lowerest_dice_index (line 314)
AboutToRead(w) == pc[w] = "iter" /\ idx[w] >= 1

\* the frames of a volume that hold ground truth
LabelledFrames(lab) == {d \in Frames : Slice(lab, d) # {}}

\* frame d has the least per-frame Dice of the prediction prd among the frames
\* with ground truth
LeastDice(prd, lab, d) ==
    /\ d \in LabelledFrames(lab)
    /\ \A e \in LabelledFrames(lab) :
          LET x == compute_dice(Slice(prd, d), Slice(lab, d))
              y == compute_dice(Slice(prd, e), Slice(lab, e))
          IN  x[1] * y[2] <= y[1] * x[2]

\* C11: when lowerest_dice_index is read at the start of an iteration
\* idx >= 1 it is bound, its last assignment was made in iteration idx - 1 of
\* the same object of the same volume, and it is the smallest frame with
\* ground truth whose per-frame Dice in that iteration (pred still holds that
\* iteration's stacked prediction) is the least.
C11_DiceIndexFresh ==
    \A w \in Ranks :
       AboutToRead(w) =>
         /\ lowerest_dice_index # UnboundIndex
         /\ assigned_at = <<_index[w], i[w], idx[w] - 1>>
         /\ LeastDice(pred, label, lowerest_dice_index)
         /\ \A d \in Frames :
               LeastDice(pred, label, d) => lowerest_dice_index <= d

\* C11 witness: the read happens in the second object of a volume, after
\* the first object left its own value behind, and two frames with ground
\* truth tie for the least Dice
C11_Witness ==
    \E w \in Ranks :
       /\ AboutToRead(w)
       /\ i[w] = 2
       /\ \E d \in Frames : \E e \in Frames :
             d # e /\ LeastDice(pred, label, d) /\ LeastDice(pred, label, e)

\* ceil(n_files / world_size): the largest shard
MaxShardLen == (n_files + world_size - 1) \div world_size

AfterLoop == {"barrier399", "gather_metric", "report", "cleanup", "barrier432",
              "line410", "UnboundLocalError"}

HoldsCombined(w) ==
    \/ pc[w] = "report"
    \/ pc[w] \in {"cleanup", "barrier432"}

\* C7: after the final exchange every rank holds the same tensor, the local
\* tensors of ranks 0, 1, ... one after the other along the volume axis; every
\* local tensor has the rows of the largest shard, the rows past the rank's own
\* shard all NaN, and the exchange never meets tensors of different shapes.
C7_CombinedTensor ==
    distributed =>
      /\ \A w \in Ranks : pc[w] # "shape_error"
      /\ \A w \in Ranks :
            pc[w] \in AfterLoop =>
              /\ Len(local_metric[w]) = MaxShardLen
              /\ \A r \in 1 .. Len(local_metric[w]) :
                    r > Len(process_files[w]) => local_metric[w][r] = NanRow
      /\ \A w \in Ranks :
            HoldsCombined(w) =>
              /\ Len(metric[w]) = world_size * MaxShardLen
              /\ \A k \in 1 .. Len(metric[w]) :
                    metric[w][k] =
                      local_metric[(k - 1) \div MaxShardLen][((k - 1) % MaxShardLen) + 1]

\* C7 witness: two ranks with shards of different sizes, a rank past the
\* exchange holding a computed row and an all-NaN row
C7_Witness ==
    /\ distributed
    /\ world_size > 1
    /\ \E w \in Ranks :
          /\ HoldsCombined(w)
          /\ Len(process_files[0]) # Len(process_files[world_size - 1])
          /\ \E r \in 1 .. Len(metric[w]) : metric[w][r] = NanRow
          /\ \E r \in 1 .. Len(metric[w]) : ~isnan(metric[w][r][1][1])

\* the rows of a tensor that hold at least one number
RowsWithNumber(m) ==
    {r \in DOMAIN m :
       \E o \in 1 .. metric_dim : \E t \in 1 .. max_iters : ~isnan(m[r][o][t])}

\* the k-th smallest element of a set of integers
KthSmallest(S, k) == CHOOSE r \in S : Cardinality({q \in S : q < r}) = k - 1

Filtered(w) == IsReporter(w) /\ pc[w] \in {"line410", "UnboundLocalError"}

\* C8: the row filter drops exactly the rows that are NaN for every object and
\* iteration, keeps the others in their order, and the number of kept rows is
\* the number of volumes processed by all ranks together.
C8_RowFilter ==
    \A w \in Ranks :
       Filtered(w) =>
         /\ \A r \in DOMAIN pre_filter :
               keep_index[r] <=> r \in RowsWithNumber(pre_filter)
         /\ Len(metric[w]) = Cardinality(RowsWithNumber(pre_filter))
         /\ \A k \in 1 .. Len(metric[w]) :
               metric[w][k] = pre_filter[KthSmallest(RowsWithNumber(pre_filter), k)]
         /\ Len(metric[w]) = n_files

\* C8 witness: the filter has run on a tensor with a computed row and an
\* all-NaN row, and has dropped the latter
C8_Witness ==
    \E w \in Ranks :
       /\ Filtered(w)
       /\ Len(metric[w]) > 0
       /\ Len(metric[w]) < Len(pre_filter)
       /\ \E r \in DOMAIN pre_filter : pre_filter[r] = NanRow

\* a process that has left run(), by return or by an exception
Stopped(v) == pc[v] \in {"returned", "UnboundLocalError", "shape_error"}

InCollective(w) ==
    pc[w] \in {"barrier115", "barrier259", "gather_sizes", "barrier399",
               "gather_metric", "barrier432"}

\* C10: no rank is ever left waiting in a collective for a rank that has
\* stopped before entering it.
C10_NoRankStranded ==
    \A w \in Ranks :
       InCollective(w) =>
         ~(\E v \in Ranks : Stopped(v) /\ Len(entered[v]) < Len(entered[w]))

\* C10 (collective order): the collectives a rank has entered are a prefix of
\* barrier, barrier, all_gather, barrier, all_gather, barrier, whatever its shard
CollectiveOrder ==
    <<"barrier", "barrier", "all_gather", "barrier", "all_gather", "barrier">>

SameCollectiveSequence ==
    \A w \in Ranks :
       /\ Len(entered[w]) <= Len(CollectiveOrder)
       /\ \A k \in 1 .. Len(entered[w]) : entered[w][k].kind = CollectiveOrder[k]

\* the entries of a (volume, object) pair that hold a number
Computed(m, v, o) == {m[v][o][t] : t \in {u \in 1 .. max_iters : ~isnan(m[v][o][u])}}

NearestIn(xy, region, ref) ==
    /\ <<xy[2], xy[1]>> \in region
    /\ \A q \in region : SqDist(<<xy[2], xy[1]>>, ref) <= SqDist(q, ref)

\* what a call of get_points_from_false_pred has done, the reference prompt
\* being the one at position at(number of prompts given)
FalsePredContract(at(_)) ==
    fn_pc = "false_pred_done" =>
      LET pts  == fn_in[1]
          n    == Len(pts)
          ref  == <<pts[at(n)][2], pts[at(n)][1]>>
          efp  == binary_erosion(fn_pred \ fn_gt)
          efn  == binary_erosion(fn_gt \ fn_pred)
          a    == IF efp # {} THEN 1 ELSE 0
          b    == IF efn # {} THEN 1 ELSE 0
      IN  /\ Len(fn_out[1]) = n + a + b
          /\ Len(fn_out[2]) = n + a + b
          /\ SubSeq(fn_out[1], 1, n) = pts
          /\ SubSeq(fn_out[2], 1, n) = fn_in[2]
          /\ efp # {} => /\ fn_out[2][n + 1] = 0
                         /\ NearestIn(fn_out[1][n + 1], efp, ref)
          /\ efn # {} => /\ fn_out[2][n + a + 1] = 1
                         /\ NearestIn(fn_out[1][n + a + 1], efn, ref)

LastOf(n) == n

FirstOf(n) == 1

SingleComponent(mask) == mask # {} /\ Grow(mask, {LexMin(mask)}) = mask

\* the sum of the voxels of a mask, coordinate by coordinate
CoordSums(mask) == [k \in 1 .. 3 |-> SumCoord(mask, k)]

\* |p - c|^2 <= |q - c|^2 for the centroid c = S / n of a mask of n voxels
\* that sum to S, written without the division:
\* n (|p|^2 - |q|^2) <= 2 (p - q) . S
NoFartherFromCentroid(p, q, n, S) ==
    n * (SqDist(p, <<0, 0, 0>>) - SqDist(q, <<0, 0, 0>>))
      <= 2 * SeqSum([k \in 1 .. 3 |-> (p[k] - q[k]) * S[k]])

\* C9: for a mask with a single connected component the seed point is a voxel
\* of the mask, and no voxel of the mask is nearer to the mask's centroid.
C9_SeedInComponent ==
    (fn_pc = "seed_done" /\ SingleComponent(fn_mask)) =>
      LET n == Cardinality(fn_mask)
          S == CoordSums(fn_mask)
      IN  /\ fn_seed \in fn_mask
          /\ \A q \in fn_mask : NoFartherFromCentroid(fn_seed, q, n, S)

\* C9 witness: a seed was taken from a connected mask that is not a box (a
\* voxel between two of its voxels is missing) and has voxels farther from the
\* centroid than the seed
C9_Witness ==
    /\ fn_pc = "seed_done"
    /\ SingleComponent(fn_mask)
    /\ fn_seed \in fn_mask
    /\ \E v \in Voxels \ fn_mask :
          \E p \in fn_mask : \E q \in fn_mask :
             \A k \in 1 .. 3 : (p[k] <= v[k] /\ v[k] <= q[k])
    /\ \E q \in fn_mask :
          ~NoFartherFromCentroid(q, fn_seed, Cardinality(fn_mask), CoordSums(fn_mask))

====
